---------------------------- MODULE Spec2Model ----------------------------
(***************************************************************************)
(* Model of the synchronisation and reconciliation engine of src/app.py:  *)
(* fetch_plays_for_user (paginated fetch with 202 retry and cutoffs),     *)
(* update_plays (per-record insert/update/delete and deletion detection), *)
(* cron_update (the scheduled sweep) and admin_full_scan.                 *)
(*                                                                         *)
(* Strings that the code compares with < and >= (ISO dates and            *)
(* datetimes) are sequences of naturals compared lexicographically: a     *)
(* date "YYYY-MM-DD" is the one-element sequence <<day>>, the datetime    *)
(* "YYYY-MM-DDTHH:MM:SS" is <<day, 0>>, so a date is a proper prefix of   *)
(* the datetime of the same day, as in Python and SQLite.                 *)
(***************************************************************************)
EXTENDS Integers, Sequences, FiniteSets, TLC

VARIABLES
    GAME_LOCATION,  \* configured target location (os.environ, line 18)
    users,          \* table bgg_users: rows [id, is_active, last_full_scan]
    plays,          \* table plays: rows [id, game_id, play_date, user_id]
    games,          \* table games: rows [id, name, image_url]
    job,            \* running handler: "none", "cron" or "admin"
    queue,          \* users the running handler still has to scan (head = current)
    pc,             \* position of the handler: idle, begin, fetch, fetched, reconciled
    full_scan,      \* mode of the current scan
    remote,         \* remote play history served to the current fetch
    page,           \* fetch_plays_for_user: page counter
    new_plays,      \* fetch_plays_for_user: accumulated records (the batch)
    status_code,    \* fetch_plays_for_user: status of the last response (0: none yet)
    calls,          \* game ids whose metadata the last reconcile pass requested
    writes          \* row writes of the last reconcile pass: <<statement, play id>>

vars == <<GAME_LOCATION, users, plays, games, job, queue, pc, full_scan,
          remote, page, new_plays, status_code, calls, writes>>

----------------------------------------------------------------------------
(* Bounds of the model *)

MaxHist == 3        \* longest remote history of one user (records)
MaxBatch == 2       \* longest batch handed to update_plays on an arbitrary store
MaxSysHist == 2     \* longest remote history in the whole-system specification

(* Program constants and configuration *)

Today == 16         \* day number of datetime.today()
RESCAN_DAYS == 14
StartDay == 1       \* day number of f"{START_YEAR}-01-01"
PageSize == 2       \* records the remote service puts on one page

Users == {1, 2}
PlayIds == {1, 2}
GameIds == {1, 2}
Days == {0, 2, 10}
RawLocations == {"Home", "Cafe"}
Targets == {"HOME", "Home"}

NullStr == <<>>     \* SQL NULL / Python None in a string column

----------------------------------------------------------------------------
(* Strings *)

\* Python str < str, SQLite text <: lexicographic, a proper prefix is smaller.
RECURSIVE StrLess(_, _)
StrLess(a, b) ==
    IF b = <<>> THEN FALSE
    ELSE IF a = <<>> THEN TRUE
    ELSE IF a[1] < b[1] THEN TRUE
    ELSE IF a[1] > b[1] THEN FALSE
    ELSE StrLess(Tail(a), Tail(b))

\* A calendar date as the remote service and START_DATE write it.
IsoDate(d) == <<d>>

\* datetime.isoformat(): the date, then "T" and the time of day.
IsoDateTime(d) == <<d, 0>>

\* str.upper() on the location strings of the model.
Upper(s) ==
    CASE s = "Home" -> "HOME"
      [] s = "Cafe" -> "CAFE"
      [] OTHER -> s

\* START_DATE one year early.
START_DATE_YearBefore == IsoDate(StartDay - 1)

START_DATE == IsoDate(StartDay)

\* The re-scan cutoff both fetch_plays_for_user and update_plays compute.
CutoffDate(full) ==
    IF full THEN START_DATE ELSE IsoDateTime(Today - RESCAN_DAYS)

----------------------------------------------------------------------------
(* The remote service *)

\* <play> elements: id, date, location and (optionally) an <item>.
RecordsOver(ids, days, gids) ==
    [id : ids, date : {IsoDate(d) : d \in days}, location : RawLocations,
     has_item : {TRUE}, objectid : gids]
    \cup
    [id : ids, date : {IsoDate(d) : d \in days}, location : {"Home"},
     has_item : {FALSE}, objectid : {1}]

\* The histories fetch_plays_for_user is run on: every date class, with
\* and without <item>; the fetch passes the game id on unread.
RemoteRecords == RecordsOver(PlayIds, Days, {1})

\* The remote service assigns a play id to one play: a history may show a
\* play twice (pages shift while they are read) but never two plays of one id.
ConsistentIds(h) ==
    \A i, j \in 1..Len(h) : h[i].id = h[j].id => h[i] = h[j]

SeqsUpTo(S, n) == UNION {[1..k -> S] : k \in 0..n}

HistoriesOver(R, n) == {h \in SeqsUpTo(R, n) : ConsistentIds(h)}

Histories == HistoriesOver(RemoteRecords, MaxHist)

\* The histories the whole-system specification draws from.
SysDays == {2, 10}
SysGameIds == {1}
SysHistories ==
    HistoriesOver({r \in RecordsOver(PlayIds, SysDays, SysGameIds) : r.has_item},
                  MaxSysHist)

Min(a, b) == IF a < b THEN a ELSE b

\* The records of page number p of history h.
RemotePage(h, p) ==
    SubSeq(h, (p - 1) * PageSize + 1, Min(p * PageSize, Len(h)))

----------------------------------------------------------------------------
(* fetch_plays_for_user *)

\* ScanPage passing over a record older than the cutoff instead of returning.
RECURSIVE ScanPage_SkipsOld(_, _, _, _)
ScanPage_SkipsOld(play_elems, acc, user_id, cutoff_date) ==
    IF play_elems = <<>> THEN [plays |-> acc, returned |-> FALSE]
    ELSE LET p == Head(play_elems) IN
         IF StrLess(p.date, cutoff_date) \/ ~p.has_item
         THEN ScanPage_SkipsOld(Tail(play_elems), acc, user_id, cutoff_date)
         ELSE ScanPage_SkipsOld(Tail(play_elems),
                       Append(acc, [id |-> p.id, game_id |-> p.objectid,
                                    play_date |-> p.date, user_id |-> user_id,
                                    location |-> Upper(p.location)]),
                       user_id, cutoff_date)

\* The for-loop over one page (lines 271-295): stop at the first record
\* older than the cutoff, skip a record without <item>, append the others.
RECURSIVE ScanPage(_, _, _, _)
ScanPage(play_elems, acc, user_id, cutoff_date) ==
    IF play_elems = <<>> THEN [plays |-> acc, returned |-> FALSE]
    ELSE LET p == Head(play_elems) IN
         IF StrLess(p.date, cutoff_date)
         THEN [plays |-> acc, returned |-> TRUE]
         ELSE IF ~p.has_item
         THEN ScanPage(Tail(play_elems), acc, user_id, cutoff_date)
         ELSE ScanPage(Tail(play_elems),
                       Append(acc, [id |-> p.id, game_id |-> p.objectid,
                                    play_date |-> p.date, user_id |-> user_id,
                                    location |-> Upper(p.location)]),
                       user_id, cutoff_date)

\* The page-level rule (lines 265-269).
PageTooOld(play_elems) == StrLess(play_elems[1].date, START_DATE)

\* HandlePage going on to the next page after the record-level return.
HandlePage_NoRecordStop(play_elems, acc, user_id, full) ==
    IF play_elems = <<>> THEN [plays |-> acc, more |-> FALSE]
    ELSE IF PageTooOld(play_elems) THEN [plays |-> acc, more |-> FALSE]
    ELSE [plays |-> ScanPage(play_elems, acc, user_id, CutoffDate(full)).plays,
          more |-> TRUE]

\* Handling of one 200 response (lines 258-297): the accumulated records and
\* whether the while-loop goes on to the next page.
HandlePage(play_elems, acc, user_id, full) ==
    IF play_elems = <<>> THEN [plays |-> acc, more |-> FALSE]
    ELSE IF PageTooOld(play_elems) THEN [plays |-> acc, more |-> FALSE]
    ELSE LET r == ScanPage(play_elems, acc, user_id, CutoffDate(full))
         IN  [plays |-> r.plays, more |-> ~r.returned]

Fetching == pc = "fetch"

\* Resp202 counting the page although the request is to be repeated.
Resp202_SkipsPage ==
    /\ Fetching
    /\ status_code' = 202
    /\ page' = page + 1
    /\ UNCHANGED <<GAME_LOCATION, users, plays, games, job, queue, pc,
                   full_scan, remote, new_plays, calls, writes>>

\* Status 202 (lines 248-251): sleep and request the same page again.
Resp202 ==
    /\ Fetching
    /\ status_code' = 202
    /\ UNCHANGED <<GAME_LOCATION, users, plays, games, job, queue, pc,
                   full_scan, remote, page, new_plays, calls, writes>>

\* RespFail raising: the handler ends with the error, the sweep with it.
RespFail_Raises ==
    /\ Fetching
    /\ status_code' = 500
    /\ pc' = "idle"
    /\ job' = "none"
    /\ queue' = <<>>
    /\ full_scan' = FALSE
    /\ remote' = <<>>
    /\ page' = 1
    /\ new_plays' = <<>>
    /\ calls' = <<>>
    /\ writes' = {}
    /\ UNCHANGED <<GAME_LOCATION, users, plays, games>>

\* Any other status but 200 (lines 253-256): break, return what was gathered.
RespFail ==
    /\ Fetching
    /\ status_code' = 500
    /\ pc' = "fetched"
    /\ UNCHANGED <<GAME_LOCATION, users, plays, games, job, queue,
                   full_scan, remote, page, new_plays, calls, writes>>

\* Status 200 (lines 258-297).
RespOk ==
    /\ Fetching
    /\ status_code' = 200
    /\ LET r == HandlePage(RemotePage(remote, page), new_plays,
                           Head(queue), full_scan)
       IN  /\ new_plays' = r.plays
           /\ IF r.more
              THEN page' = page + 1 /\ pc' = pc
              ELSE page' = page /\ pc' = "fetched"
    /\ UNCHANGED <<GAME_LOCATION, users, plays, games, job, queue,
                   full_scan, remote, calls, writes>>

----------------------------------------------------------------------------
(* fetch_game_info and update_plays *)

NoInfo == [name |-> NullStr, image_url |-> NullStr]

\* What fetch_game_info can return for one game: nulls on a bad status or a
\* missing <item> (lines 397-408), else the name and image of the item.
GameInfos == {NoInfo, [name |-> <<1>>, image_url |-> <<2>>]}

Exists(ps, id) == \E r \in ps : r.id = id

RowOf(p) == [id |-> p.id, game_id |-> p.game_id,
             play_date |-> p.play_date, user_id |-> p.user_id]

\* DeleteRow restricted to the rows of the record's user.
DeleteRow_SameUserOnly(st, p) ==
    [st EXCEPT !.plays = {r \in st.plays : ~(r.id = p.id /\ r.user_id = p.user_id)},
               !.writes = st.writes \cup {<<"delete", p.id>>}]

\* DELETE FROM plays WHERE id=? (lines 315-318)
DeleteRow(st, p) ==
    [st EXCEPT !.plays = {r \in st.plays : r.id # p.id},
               !.writes = st.writes \cup {<<"delete", p.id>>}]

\* InsertRow leaving out the Game row when the lookup failed.
InsertRow_SkipsOnFailure(st, p, meta) ==
    LET s1 == [st EXCEPT !.plays = st.plays \cup {RowOf(p)},
                         !.writes = st.writes \cup {<<"insert", p.id>>}]
    IN  IF \E g \in st.games : g.id = p.game_id
        THEN s1
        ELSE IF meta[p.game_id] = NoInfo
        THEN [s1 EXCEPT !.calls = Append(st.calls, p.game_id)]
        ELSE [s1 EXCEPT !.games = st.games \cup
                            {[id |-> p.game_id, name |-> meta[p.game_id].name,
                              image_url |-> meta[p.game_id].image_url]},
                        !.calls = Append(st.calls, p.game_id)]

\* InsertRow resolving the game of every inserted play, stored or not.
InsertRow_AlwaysResolves(st, p, meta) ==
    [st EXCEPT !.plays = st.plays \cup {RowOf(p)},
               !.writes = st.writes \cup {<<"insert", p.id>>},
               !.games = {g \in st.games : g.id # p.game_id} \cup
                             {[id |-> p.game_id, name |-> meta[p.game_id].name,
                               image_url |-> meta[p.game_id].image_url]},
               !.calls = Append(st.calls, p.game_id)]

\* INSERT INTO plays, and the games row of an unseen game (lines 321-338)
InsertRow(st, p, meta) ==
    LET s1 == [st EXCEPT !.plays = st.plays \cup {RowOf(p)},
                         !.writes = st.writes \cup {<<"insert", p.id>>}]
    IN  IF \E g \in st.games : g.id = p.game_id
        THEN s1
        ELSE [s1 EXCEPT !.games = st.games \cup
                            {[id |-> p.game_id, name |-> meta[p.game_id].name,
                              image_url |-> meta[p.game_id].image_url]},
                        !.calls = Append(st.calls, p.game_id)]

\* UpdateRow without the test that a column differs (line 346).
UpdateRow_AlwaysWrites(st, p) ==
    IF \E r \in st.plays : r.id = p.id
    THEN [st EXCEPT !.plays = {IF r.id = p.id THEN RowOf(p) ELSE r
                               : r \in st.plays},
                    !.writes = st.writes \cup {<<"update", p.id>>}]
    ELSE st

\* UPDATE plays ... WHERE id = ? AND (a column differs) (lines 341-352)
UpdateRow(st, p) ==
    IF \E r \in st.plays : r.id = p.id /\ r # RowOf(p)
    THEN [st EXCEPT !.plays = {IF r.id = p.id THEN RowOf(p) ELSE r
                               : r \in st.plays},
                    !.writes = st.writes \cup {<<"update", p.id>>}]
    ELSE st

\* ApplyRecord looking for the stored row by play id and user (line 309 with
\* "AND user_id=?").
ApplyRecord_ExistsPerUser(st, p, meta) ==
    LET exists == \E r \in st.plays : r.id = p.id /\ r.user_id = p.user_id
    IN  IF exists /\ p.location # GAME_LOCATION
        THEN DeleteRow(st, p)
        ELSE IF ~exists /\ p.location = GAME_LOCATION
        THEN InsertRow(st, p, meta)
        ELSE UpdateRow(st, p)

\* ApplyRecord with the location test of the insert branch (line 320) left out.
ApplyRecord_InsertsAnyLocation(st, p, meta) ==
    IF Exists(st.plays, p.id) /\ p.location # GAME_LOCATION
    THEN DeleteRow(st, p)
    ELSE IF ~Exists(st.plays, p.id)
    THEN InsertRow(st, p, meta)
    ELSE UpdateRow(st, p)

\* ApplyRecord with the delete branch (lines 314-319) left out: a stored play
\* that moved away is updated in place.
ApplyRecord_KeepsMoved(st, p, meta) ==
    IF ~Exists(st.plays, p.id) /\ p.location = GAME_LOCATION
    THEN InsertRow(st, p, meta)
    ELSE UpdateRow(st, p)

\* Lines 306-352 for one record p; meta[g] is what fetch_game_info(g) answers.
ApplyRecord(st, p, meta) ==
    IF Exists(st.plays, p.id) /\ p.location # GAME_LOCATION
    THEN DeleteRow(st, p)
    ELSE IF ~Exists(st.plays, p.id) /\ p.location = GAME_LOCATION
    THEN InsertRow(st, p, meta)
    ELSE UpdateRow(st, p)

RECURSIVE ApplyRecords(_, _, _)
ApplyRecords(st, batch, meta) ==
    IF batch = <<>> THEN st
    ELSE ApplyRecords(ApplyRecord(st, Head(batch), meta), Tail(batch), meta)

\* DeletedIds without the date window of line 369.
DeletedIds_NoWindow(ps, batch, full) ==
    IF batch = <<>> THEN {}
    ELSE {r.id : r \in {x \in ps : x.user_id = batch[1].user_id}}
         \ {batch[i].id : i \in 1..Len(batch)}

\* Lines 355-374: the ids deletion detection removes; none for an empty batch.
DeletedIds(ps, batch, full) ==
    IF batch = <<>> THEN {}
    ELSE LET user_id == batch[1].user_id
             bgg_ids == {batch[i].id : i \in 1..Len(batch)}
             cutoff  == CutoffDate(full)
             db_ids  == {r.id : r \in {x \in ps : /\ x.user_id = user_id
                                                  /\ ~StrLess(x.play_date, cutoff)}}
         IN  db_ids \ bgg_ids

\* Lines 376-377.
DetectDeleted(st, batch, full) ==
    LET deleted_ids == DeletedIds(st.plays, batch, full)
    IN  [st EXCEPT !.plays = {r \in st.plays : r.id \notin deleted_ids},
                   !.writes = st.writes \cup {<<"delete", id>> : id \in deleted_ids}]

\* update_plays(plays, full_scan) on the store st = [plays, games, calls, writes].
update_plays(st, batch, full, meta) ==
    DetectDeleted(ApplyRecords(st, batch, meta), batch, full)

----------------------------------------------------------------------------
(* Admin handlers on bgg_users *)

Idle == pc = "idle"

UserRow(u) == CHOOSE r \in users : r.id = u

IsActive(u) == \E r \in users : r.id = u /\ r.is_active

\* datetime.today().isoformat(timespec="seconds") (lines 182, 444).
Stamp == IsoDateTime(Today)

scanVars == <<full_scan, remote, page, new_plays, status_code, calls, writes>>

\* add_user (lines 110-139): reactivate an existing row, else insert one.
add_user(u) ==
    /\ Idle
    /\ users' = IF \E r \in users : r.id = u
                THEN {IF r.id = u THEN [r EXCEPT !.is_active = TRUE] ELSE r
                      : r \in users}
                ELSE users \cup {[id |-> u, is_active |-> TRUE,
                                  last_full_scan |-> NullStr]}
    /\ UNCHANGED <<GAME_LOCATION, plays, games, job, queue, pc>>
    /\ UNCHANGED scanVars

\* delete_user (lines 144-151): soft delete.
delete_user(u) ==
    /\ Idle
    /\ users' = {IF r.id = u THEN [r EXCEPT !.is_active = FALSE] ELSE r
                 : r \in users}
    /\ UNCHANGED <<GAME_LOCATION, plays, games, job, queue, pc>>
    /\ UNCHANGED scanVars

----------------------------------------------------------------------------
(* The two scan entry points *)

RECURSIVE InOrder(_)
InOrder(S) ==
    IF S = {} THEN <<>>
    ELSE LET m == CHOOSE x \in S : \A y \in S : x <= y
         IN  <<m>> \o InOrder(S \ {m})

ActiveUsers == {r.id : r \in {x \in users : x.is_active}}

\* cron_update, lines 429-433: the active users; nothing to do without any.
cron_update ==
    /\ Idle
    /\ ActiveUsers # {}
    /\ job' = "cron"
    /\ queue' = InOrder(ActiveUsers)
    /\ pc' = "begin"
    /\ UNCHANGED <<GAME_LOCATION, users, plays, games>>
    /\ UNCHANGED scanVars

\* admin_full_scan, lines 157-168: only for an active user.
admin_full_scan(u) ==
    /\ Idle
    /\ IsActive(u)
    /\ job' = "admin"
    /\ queue' = <<u>>
    /\ pc' = "begin"
    /\ UNCHANGED <<GAME_LOCATION, users, plays, games>>
    /\ UNCHANGED scanVars

\* ScanScheduler: line 439 for the sweep, full_scan=True at line 171.
NextMode(j, u) == j = "admin" \/ UserRow(u).last_full_scan = NullStr

\* The call of fetch_plays_for_user (lines 171, 440); h is the history the
\* remote service holds for the user while this fetch runs.
BeginFetch(h) ==
    /\ pc = "begin"
    /\ full_scan' = NextMode(job, Head(queue))
    /\ remote' = h
    /\ page' = 1
    /\ new_plays' = <<>>
    /\ status_code' = 0
    /\ pc' = "fetch"
    /\ UNCHANGED <<GAME_LOCATION, users, plays, games, job, queue, calls,
                   writes>>

SetWatermark(us, u) ==
    {IF r.id = u THEN [r EXCEPT !.last_full_scan = Stamp] ELSE r : r \in us}

\* admin_full_scan, line 174: DELETE FROM plays WHERE user_id=?
ClearUser(st, u) ==
    [st EXCEPT !.plays = {r \in st.plays : r.user_id # u},
               !.writes = {<<"clear", r.id>> : r \in {x \in st.plays : x.user_id = u}}]

\* AdminReconcile without the DELETE of lines 174-177.
AdminReconcile_NoClear(st, u, batch, meta) == update_plays(st, batch, TRUE, meta)

\* admin_full_scan, lines 173-180: clear the user's plays, then reconcile.
AdminReconcile(st, u, batch, meta) ==
    update_plays(ClearUser(st, u), batch, TRUE, meta)

\* cron_update, lines 441-449: reconcile; stamp when the watermark was unset.
CronReconcile(st, batch, full, meta) == update_plays(st, batch, full, meta)

\* CronWatermark never stamping.
CronWatermark_Never(us, u) == us

CronWatermark(us, u) ==
    IF UserRow(u).last_full_scan = NullStr THEN SetWatermark(us, u) ELSE us

Store == [plays |-> plays, games |-> games, calls |-> calls, writes |-> writes]

Reconcile(meta) ==
    /\ pc = "fetched"
    /\ LET u  == Head(queue)
           s0 == [Store EXCEPT !.calls = <<>>, !.writes = {}]
           st == IF job = "admin"
                 THEN AdminReconcile(s0, u, new_plays, meta)
                 ELSE CronReconcile(s0, new_plays, full_scan, meta)
       IN  /\ plays' = st.plays
           /\ games' = st.games
           /\ calls' = st.calls
           /\ writes' = st.writes
           /\ users' = IF job = "admin" THEN SetWatermark(users, u)
                       ELSE CronWatermark(users, u)
    /\ pc' = "reconciled"
    /\ remote' = <<>>
    /\ UNCHANGED <<GAME_LOCATION, job, queue, full_scan, page,
                   new_plays, status_code>>

\* The writes the connection holds uncommitted when fetch_game_info raises
\* (requests.get at line 388, ET.fromstring at line 404) for record k of the
\* batch: those of records 1..k-1, and the play row of record k (line 321).
WorkingCopy(st, batch, k, meta) ==
    LET w == ApplyRecords(st, SubSeq(batch, 1, k - 1), meta)
        p == batch[k]
    IN  [w EXCEPT !.plays = w.plays \cup {RowOf(p)},
                  !.writes = w.writes \cup {<<"insert", p.id>>},
                  !.calls = Append(w.calls, p.game_id)]

\* Record k reaches the call of fetch_game_info (lines 320-334).
ResolvesAt(st, batch, k, meta) ==
    LET w == ApplyRecords(st, SubSeq(batch, 1, k - 1), meta)
        p == batch[k]
    IN  /\ ~Exists(w.plays, p.id)
        /\ p.location = GAME_LOCATION
        /\ ~\E g \in w.games : g.id = p.game_id

\* ReconcileFails with every statement committed as it is executed.
ReconcileFails_Autocommit(k, meta) ==
    /\ pc = "fetched"
    /\ job = "cron"
    /\ k \in 1..Len(new_plays)
    /\ LET s0 == [Store EXCEPT !.calls = <<>>, !.writes = {}]
       IN  /\ ResolvesAt(s0, new_plays, k, meta)
           /\ LET w == WorkingCopy(s0, new_plays, k, meta)
              IN  /\ calls' = w.calls
                  /\ writes' = w.writes
                  /\ plays' = w.plays
                  /\ games' = w.games
    /\ pc' = "failed"
    /\ UNCHANGED <<GAME_LOCATION, users, job, queue, full_scan, remote,
                   page, new_plays, status_code>>

\* update_plays of the sweep ends with the exception fetch_game_info raises
\* for record k: line 379 is not reached, nothing of the pass is committed.
ReconcileFails(k, meta) ==
    /\ pc = "fetched"
    /\ job = "cron"
    /\ k \in 1..Len(new_plays)
    /\ LET s0 == [Store EXCEPT !.calls = <<>>, !.writes = {}]
       IN  /\ ResolvesAt(s0, new_plays, k, meta)
           /\ LET w == WorkingCopy(s0, new_plays, k, meta)
              IN  /\ calls' = w.calls
                  /\ writes' = w.writes
    /\ pc' = "failed"
    /\ UNCHANGED <<GAME_LOCATION, users, plays, games, job, queue, full_scan,
                   remote, page, new_plays, status_code>>

\* close_db (lines 35-39) at the end of the failed request: the connection
\* is closed without commit, its uncommitted writes are discarded.
close_db ==
    /\ pc = "failed"
    /\ pc' = "idle"
    /\ job' = "none"
    /\ queue' = <<>>
    /\ full_scan' = FALSE
    /\ remote' = <<>>
    /\ page' = 1
    /\ new_plays' = <<>>
    /\ status_code' = 0
    /\ calls' = <<>>
    /\ writes' = {}
    /\ UNCHANGED <<GAME_LOCATION, users, plays, games>>

\* The for-loop of cron_update moves to the next user, or the handler returns.
Advance ==
    /\ pc = "reconciled"
    /\ queue' = Tail(queue)
    /\ IF Tail(queue) = <<>>
       THEN /\ pc' = "idle"
            /\ job' = "none"
            /\ full_scan' = FALSE
            /\ remote' = <<>>
            /\ page' = 1
            /\ new_plays' = <<>>
            /\ status_code' = 0
            /\ calls' = <<>>
            /\ writes' = {}
       ELSE /\ pc' = "begin"
            /\ job' = job
            /\ full_scan' = FALSE
            /\ page' = 1
            /\ new_plays' = <<>>
            /\ calls' = <<>>
            /\ writes' = {}
            /\ UNCHANGED <<remote, status_code>>
    /\ UNCHANGED <<GAME_LOCATION, users, plays, games>>

----------------------------------------------------------------------------
(* The system *)

Init ==
    /\ GAME_LOCATION \in Targets
    /\ users = {}
    /\ plays = {}
    /\ games = {}
    /\ job = "none"
    /\ queue = <<>>
    /\ pc = "idle"
    /\ full_scan = FALSE
    /\ remote = <<>>
    /\ page = 1
    /\ new_plays = <<>>
    /\ status_code = 0
    /\ calls = <<>>
    /\ writes = {}

Metas == [GameIds -> GameInfos]

Next ==
    \/ \E u \in Users : add_user(u)
    \/ \E u \in Users : delete_user(u)
    \/ cron_update
    \/ \E u \in Users : admin_full_scan(u)
    \/ \E h \in SysHistories : BeginFetch(h)
    \/ Resp202
    \/ RespFail
    \/ RespOk
    \/ \E meta \in Metas : Reconcile(meta)
    \/ Advance

Spec == Init /\ [][Next]_vars

----------------------------------------------------------------------------
(* fetch_plays_for_user alone, on every remote history *)

InitFetch ==
    /\ GAME_LOCATION = "HOME"
    /\ full_scan \in BOOLEAN
    /\ users = {[id |-> 1, is_active |-> TRUE,
                 last_full_scan |-> IF full_scan THEN NullStr ELSE Stamp]}
    /\ plays = {}
    /\ games = {}
    /\ job = "cron"
    /\ queue = <<1>>
    /\ pc = "fetch"
    /\ remote \in Histories
    /\ page = 1
    /\ new_plays = <<>>
    /\ status_code = 0
    /\ calls = <<>>
    /\ writes = {}

NextFetch == Resp202 \/ RespFail \/ RespOk

SpecFetch == InitFetch /\ [][NextFetch]_vars

\* Every request eventually receives a response other than 202.
FairFetch == SpecFetch /\ WF_vars(RespFail \/ RespOk)

----------------------------------------------------------------------------
(* update_plays alone, on every store and every batch a fetch can return *)

\* Rows the store can hold before a pass over a batch of user 1: any row of
\* user 1, and rows of user 2 dated inside the re-scan window.
PlayRows ==
    [id : PlayIds, game_id : GameIds,
     play_date : {IsoDate(d) : d \in Days}, user_id : {1}]
    \cup
    [id : PlayIds, game_id : {1}, play_date : {IsoDate(10)}, user_id : {2}]

\* plays.id is the primary key of the table: at most one row per id.
RECURSIVE StoresOver(_)
StoresOver(ids) ==
    IF ids = {} THEN {{}}
    ELSE LET i == CHOOSE x \in ids : TRUE
             slot == {{}} \cup {{r} : r \in {x \in PlayRows : x.id = i}}
         IN  {S \cup T : S \in slot, T \in StoresOver(ids \ {i})}

Stores == StoresOver(PlayIds)

GameRows == [id : {1}, name : {<<1>>}, image_url : {<<2>>}]

\* Records fetch_plays_for_user can append for user u in the given mode: it
\* returns at the first record older than the cutoff.
BatchRecords(u, full) ==
    [id : PlayIds, game_id : GameIds,
     play_date : {IsoDate(d) : d \in {x \in Days :
                                      ~StrLess(IsoDate(x), CutoffDate(full))}},
     user_id : {u}, location : {Upper(l) : l \in RawLocations}]

Batches(u, full) == HistoriesOver(BatchRecords(u, full), MaxBatch)

InitReconcile ==
    /\ GAME_LOCATION = "HOME"
    /\ job = "cron"
    /\ full_scan \in BOOLEAN
    /\ users = {[id |-> 1, is_active |-> TRUE,
                 last_full_scan |-> IF full_scan THEN NullStr ELSE Stamp],
                [id |-> 2, is_active |-> TRUE, last_full_scan |-> Stamp]}
    /\ plays \in Stores
    /\ games \in SUBSET GameRows
    /\ queue = <<1>>
    /\ pc = "fetched"
    /\ remote = <<>>
    /\ page = 1
    /\ new_plays \in Batches(1, full_scan)
    /\ status_code = 200
    /\ calls = <<>>
    /\ writes = {}

NextReconcile ==
    \/ \E meta \in Metas : Reconcile(meta)
    \/ \E k \in 1..MaxBatch, meta \in Metas : ReconcileFails(k, meta)
    \/ close_db

SpecReconcile == InitReconcile /\ [][NextReconcile]_vars

----------------------------------------------------------------------------
(* One incremental scan of the sweep, fetch and reconcile pass, on a store *)
(* that is in step with the remote history                                 *)

ScanPlayIds == {1, 2, 3}

\* Histories that show every play once.
ScanHistories ==
    {h \in HistoriesOver({r \in RecordsOver(ScanPlayIds, SysDays, SysGameIds) :
                              r.has_item}, MaxHist) :
        \A i, j \in 1..Len(h) : h[i].id = h[j].id => i = j}

\* The rows a complete scan of user u stores for history h.
SyncedRows(h, u) ==
    {[id |-> h[i].id, game_id |-> h[i].objectid, play_date |-> h[i].date,
      user_id |-> u] : i \in {j \in 1..Len(h) : Upper(h[j].location) = "HOME"}}

InitScan ==
    /\ GAME_LOCATION = "HOME"
    /\ full_scan = FALSE
    /\ users = {[id |-> 1, is_active |-> TRUE, last_full_scan |-> Stamp]}
    /\ remote \in ScanHistories
    /\ plays = SyncedRows(remote, 1)
    /\ games = {[id |-> g, name |-> <<1>>, image_url |-> <<2>>] : g \in SysGameIds}
    /\ job = "cron"
    /\ queue = <<1>>
    /\ pc = "fetch"
    /\ page = 1
    /\ new_plays = <<>>
    /\ status_code = 0
    /\ calls = <<>>
    /\ writes = {}

NextScan ==
    \/ Resp202
    \/ RespFail
    \/ RespOk
    \/ \E meta \in Metas : Reconcile(meta)
    \/ Advance

SpecScan == InitScan /\ [][NextScan]_vars

----------------------------------------------------------------------------
(* Properties *)

Day(date) == date[1]

BatchIds(batch) == {batch[i].id : i \in 1..Len(batch)}

Reconciled == pc = "reconciled"

ReconcileStep == pc = "fetched" /\ pc' = "reconciled"

\* The re-scan window by the calendar: a play dated d lies inside it when
\* midnight of day d is later than now minus RESCAN_DAYS days.
InWindow(r) == Day(r.play_date) > Today - RESCAN_DAYS

\* C1: update_plays is idempotent. In the state a reconcile pass of the sweep
\* leaves, a second pass over the same batch in the same mode, whatever the
\* metadata answers, leaves plays and games as they are, requests no
\* metadata and writes no row (no insert, no delete, no update).
C1_ReconcileIdempotent ==
    (Reconciled /\ job = "cron") =>
        \A meta \in Metas :
            LET again == update_plays([Store EXCEPT !.calls = <<>>, !.writes = {}],
                                      new_plays, full_scan, meta)
            IN  /\ again.plays = plays
                /\ again.games = games
                /\ again.calls = <<>>
                /\ again.writes = {}

\* A first pass that inserted a play (and resolved its game) from a batch of
\* two plays, one of them away from the target location.
C1_Witness ==
    /\ Reconciled
    /\ calls # <<>>
    /\ Cardinality(BatchIds(new_plays)) = 2
    /\ \E i \in 1..Len(new_plays) : new_plays[i].location # GAME_LOCATION
    /\ \E r \in plays : r.id \in BatchIds(new_plays)

\* C2: location invariant. After a reconcile pass, a row with a batch
\* record's play id is stored iff the record's location equals the target
\* location.
C2_StoredIffAtTarget ==
    Reconciled =>
        \A i \in 1..Len(new_plays) :
            Exists(plays, new_plays[i].id)
                <=> new_plays[i].location = GAME_LOCATION

\* A batch of two plays after reconciliation: the one at the target location
\* is stored, the one elsewhere is not.
C2_Witness ==
    /\ Reconciled
    /\ \E i, j \in 1..Len(new_plays) :
          /\ new_plays[i].location = GAME_LOCATION
          /\ Exists(plays, new_plays[i].id)
          /\ new_plays[j].location # GAME_LOCATION
          /\ ~Exists(plays, new_plays[j].id)

\* C3: window-bounded deletion, retention half. An incremental reconcile
\* pass keeps every stored play of the scanned user that is dated outside
\* the re-scan window and whose id is not in the batch.
C3_OldPlaysRetained ==
    [][(ReconcileStep /\ job = "cron" /\ ~full_scan) =>
          \A r \in plays :
              (/\ r.user_id = Head(queue)
               /\ ~InWindow(r)
               /\ r.id \notin BatchIds(new_plays)) => r \in plays']_vars

\* After an incremental pass over a non-empty batch, the store holds a play
\* of the scanned user dated outside the window that the batch does not name.
C3_Witness ==
    /\ Reconciled
    /\ ~full_scan
    /\ new_plays # <<>>
    /\ \E r \in plays :
          /\ r.user_id = Head(queue)
          /\ ~InWindow(r)
          /\ r.id \notin BatchIds(new_plays)

----------------------------------------------------------------------------
(* fetch_plays_for_user *)

\* The page the pending request asks for.
CurrentPage == RemotePage(remote, page)

\* A record older than the cutoff of the mode, by the calendar: before the
\* epoch start in Full mode, not later than now minus RESCAN_DAYS days in
\* Incremental mode.
OlderThanCutoff(p, full) ==
    IF full THEN Day(p.date) < StartDay
    ELSE Day(p.date) <= Today - RESCAN_DAYS

\* A 200 response with this page ends the fetch.
StopsFetch(play_elems, full) ==
    \/ play_elems = <<>>
    \/ Day(play_elems[1].date) < StartDay
    \/ \E i \in 1..Len(play_elems) : OlderThanCutoff(play_elems[i], full)

\* C7: retry on 'not ready'. A 202 response leaves the page number and the
\* accumulated records as they are and the fetch in progress, so the next
\* request is for the same page; and while a fetch is in progress a further
\* 202 is always accepted, there being no cap on the retries.
C7_RetrySamePage ==
    /\ [][(Fetching /\ status_code' = 202) =>
              /\ page' = page
              /\ new_plays' = new_plays
              /\ pc' = "fetch"]_vars
    /\ [](Fetching => ENABLED Resp202)

\* The request for page 2 has been answered 202 with records of page 1
\* already accumulated.
C7_Witness ==
    /\ Fetching
    /\ status_code = 202
    /\ page = 2
    /\ new_plays # <<>>

\* C8: pagination terminates. When every request eventually gets a response
\* other than 202, the fetch ends in both modes; a response ends it exactly
\* when it is a non-success status, an empty page, a page whose first record
\* is older than the epoch start, or a page with a record older than the
\* cutoff of the mode; and the page number does not advance past the page
\* that ended it.
C8_PaginationTerminates ==
    /\ <>(pc = "fetched")
    /\ [][(Fetching /\ status_code' # 202) =>
              IF status_code' # 200 \/ StopsFetch(CurrentPage, full_scan)
              THEN pc' = "fetched" /\ page' = page
              ELSE pc' = "fetch" /\ page' = page + 1]_vars
    /\ [][pc = "fetched" => (pc' = "fetched" /\ page' = page)]_vars

\* An incremental fetch ended on page 1 at its second record, a record newer
\* than the epoch start but older than the re-scan cutoff.
C8_Witness ==
    /\ pc = "fetched"
    /\ status_code = 200
    /\ ~full_scan
    /\ page = 1
    /\ Len(new_plays) = 1
    /\ Len(RemotePage(remote, 1)) = 2
    /\ Day(remote[2].date) >= StartDay
    /\ OlderThanCutoff(remote[2], FALSE)

\* C9: the page-level cutoff rule. In either mode, a 200 response whose
\* first record is dated before the epoch start ends the fetch with the
\* records accumulated from the earlier pages, none of this page appended,
\* and the page number not advanced.
C9_PageLevelCutoff ==
    [][(/\ Fetching
        /\ status_code' = 200
        /\ CurrentPage # <<>>
        /\ Day(CurrentPage[1].date) < StartDay) =>
            /\ new_plays' = new_plays
            /\ pc' = "fetched"
            /\ page' = page]_vars

\* A fetch ended on page 2, whose first record is dated before the epoch
\* start, with the records of page 1 accumulated.
C9_Witness ==
    /\ pc = "fetched"
    /\ status_code = 200
    /\ page = 2
    /\ RemotePage(remote, 2) # <<>>
    /\ Day(RemotePage(remote, 2)[1].date) < StartDay
    /\ Len(new_plays) = 2

\* Position in the history of the first record older than the cutoff of the
\* mode; one past the end when there is none.
FirstOld(h, full) ==
    LET old == {i \in 1..Len(h) : OlderThanCutoff(h[i], full)}
    IN  IF old = {} THEN Len(h) + 1
        ELSE CHOOSE i \in old : \A j \in old : i <= j

\* The records with <item> among the first n of the history, in its order.
RECURSIVE Gathered(_, _, _)
Gathered(h, n, user_id) ==
    IF n = 0 THEN <<>>
    ELSE LET rest == Gathered(h, n - 1, user_id)
         IN  IF h[n].has_item
             THEN Append(rest, [id |-> h[n].id, game_id |-> h[n].objectid,
                                play_date |-> h[n].date, user_id |-> user_id,
                                location |-> Upper(h[n].location)])
             ELSE rest

\* C18: the record-level cutoff. No record the fetch holds is older than the
\* cutoff of the mode; a fetch that no failure ended returns exactly the
\* records (those with an item) that come before the first record older
\* than the cutoff, in the order of the pages, and the last page it asked
\* for is the page of that record (the empty page after the history when no
\* record is older).
C18_RecordLevelCutoff ==
    /\ \A i \in 1..Len(new_plays) :
          ~OlderThanCutoff([date |-> new_plays[i].play_date], full_scan)
    /\ (pc = "fetched" /\ status_code = 200) =>
          LET k == FirstOld(remote, full_scan)
          IN  /\ new_plays = Gathered(remote, k - 1, Head(queue))
              /\ page = IF k <= Len(remote)
                        THEN ((k - 1) \div PageSize) + 1
                        ELSE ((Len(remote) + PageSize - 1) \div PageSize) + 1

\* A full fetch ended on page 1 at its second record, older than the epoch
\* start, with one record gathered and a newer record on page 2 unread.
C18_Witness ==
    /\ pc = "fetched"
    /\ status_code = 200
    /\ full_scan
    /\ page = 1
    /\ Len(remote) = 3
    /\ Len(new_plays) = 1
    /\ Day(remote[2].date) < StartDay
    /\ Day(remote[3].date) >= StartDay

----------------------------------------------------------------------------
(* update_plays: transaction, per-record rules, metadata *)

\* C11: the reconcile pass is atomic. A pass that fails part-way leaves plays
\* and games as they were before it, also once the request has ended; and
\* whenever a pass changes plays or games, the change is that of the whole
\* pass (per-record rules and deletion detection), made in the one step that
\* commits.
C11_AtomicPass ==
    /\ [][(pc = "fetched" /\ pc' = "failed") =>
              (plays' = plays /\ games' = games)]_vars
    /\ [][pc = "failed" => (plays' = plays /\ games' = games)]_vars
    /\ [][(pc = "fetched" /\ (plays' # plays \/ games' # games)) =>
              /\ pc' = "reconciled"
              /\ \E meta \in Metas :
                    LET st == update_plays(Store, new_plays, full_scan, meta)
                    IN  plays' = st.plays /\ games' = st.games]_vars

\* A pass failed on its second record after it had executed the delete of a
\* stored play that left the target location and the insert of a new play:
\* both rows are in the store as before.
C11_Witness ==
    /\ pc = "failed"
    /\ Len(new_plays) = 2
    /\ <<"delete", new_plays[1].id>> \in writes
    /\ <<"insert", new_plays[2].id>> \in writes
    /\ Exists(plays, new_plays[1].id)
    /\ ~Exists(plays, new_plays[2].id)

\* C12: location-change handling. For every record of the batch whose play
\* id is stored when the pass begins and whose location is not the target
\* location, the pass deletes the stored row and neither inserts nor updates
\* a play row of that id.
C12_MovedPlayDeleted ==
    [][ReconcileStep =>
          \A i \in 1..Len(new_plays) :
              (/\ Exists(plays, new_plays[i].id)
               /\ new_plays[i].location # GAME_LOCATION) =>
                  /\ ~Exists(plays', new_plays[i].id)
                  /\ <<"delete", new_plays[i].id>> \in writes'
                  /\ <<"insert", new_plays[i].id>> \notin writes'
                  /\ <<"update", new_plays[i].id>> \notin writes']_vars

\* A pass deleted a stored play that a record of the batch reports away
\* from the target location, and inserted the play of another record.
C12_Witness ==
    /\ Reconciled
    /\ \E i, j \in 1..Len(new_plays) :
          /\ new_plays[i].location # GAME_LOCATION
          /\ <<"delete", new_plays[i].id>> \in writes
          /\ ~Exists(plays, new_plays[i].id)
          /\ <<"insert", new_plays[j].id>> \in writes

\* How many times the pass called fetch_game_info for game g.
CallsFor(cs, g) == Cardinality({i \in 1..Len(cs) : cs[i] = g})

\* C13: metadata backfill exactly once. In one pass, a game id without Game
\* row that a newly inserted play references is resolved by exactly one call
\* and gets exactly one Game row, however many inserted plays reference it;
\* for any other game id no call is made and its Game rows are unchanged.
C13_ResolvedOnce ==
    [][ReconcileStep =>
          \A g \in GameIds :
              LET unseen   == ~\E r \in games : r.id = g
                  inserted == \E i \in 1..Len(new_plays) :
                                  /\ new_plays[i].game_id = g
                                  /\ <<"insert", new_plays[i].id>> \in writes'
              IN  IF unseen /\ inserted
                  THEN /\ CallsFor(calls', g) = 1
                       /\ Cardinality({r \in games' : r.id = g}) = 1
                  ELSE /\ CallsFor(calls', g) = 0
                       /\ {r \in games' : r.id = g} = {r \in games : r.id = g}]_vars

\* A pass inserted two plays of one game that had no Game row, and made one
\* call.
C13_Witness ==
    /\ Reconciled
    /\ Len(calls) = 1
    /\ \E i, j \in 1..Len(new_plays) :
          /\ new_plays[i].id # new_plays[j].id
          /\ new_plays[i].game_id = calls[1]
          /\ new_plays[j].game_id = calls[1]
          /\ <<"insert", new_plays[i].id>> \in writes
          /\ <<"insert", new_plays[j].id>> \in writes

\* Every lookup succeeds.
AllResolved == [g \in GameIds |-> [name |-> <<1>>, image_url |-> <<2>>]]

\* C15: a metadata failure is soft. Every game the pass looked up has a Game
\* row after the pass, with the name and image the lookup answered or with
\* both null; and whatever the lookups answered, the pass wrote the same
\* play rows and made the same calls as when every lookup succeeds: the
\* play is inserted and the remaining records are processed.
C15_MetadataFailureSoft ==
    [][ReconcileStep =>
          LET ok == update_plays([Store EXCEPT !.calls = <<>>, !.writes = {}],
                                 new_plays, full_scan, AllResolved)
          IN  /\ \A g \in GameIds :
                    CallsFor(calls', g) > 0 =>
                        \E info \in GameInfos :
                            [id |-> g, name |-> info.name,
                             image_url |-> info.image_url] \in games'
              /\ plays' = ok.plays
              /\ writes' = ok.writes
              /\ calls' = ok.calls
              /\ {r.id : r \in games'} = {r.id : r \in ok.games}]_vars

\* The lookup for the game of the first record failed: the play is inserted,
\* its Game row has null name and image, and the second record was inserted
\* as well.
C15_Witness ==
    /\ Reconciled
    /\ Len(new_plays) = 2
    /\ new_plays[1].id # new_plays[2].id
    /\ calls # <<>>
    /\ calls[1] = new_plays[1].game_id
    /\ [id |-> calls[1], name |-> NullStr, image_url |-> NullStr] \in games
    /\ RowOf(new_plays[1]) \in plays
    /\ RowOf(new_plays[2]) \in plays

\* Every stored play references a game that has a Game row.
GamesResolved(ps, gs) == \A r \in ps : \E g \in gs : g.id = r.game_id

\* C17: referential integrity of plays to games. If every stored play's game
\* has a Game row before a reconcile pass, then so it is after the pass,
\* whatever the batch: records that insert a play and records that change
\* the game of a stored play.
C17_PlaysReferenceGames ==
    [][ReconcileStep =>
          (GamesResolved(plays, games) => GamesResolved(plays', games'))]_vars

\* The pass wrote no play row of this id.
NoWriteFor(ws, id) == \A w \in ws : w[2] # id

\* C20: in-place update with no-op avoidance. For a record whose play id is
\* stored and whose location is the target, the row has the record's game,
\* date and user after the pass: by an update when one of them differed, by
\* no write at all when all three matched. For a record with no stored row
\* and another location, no play row is written, and the record's game gets
\* no Game row unless an inserted play references it.
C20_UpdateInPlace ==
    [][ReconcileStep =>
          \A i \in 1..Len(new_plays) :
              LET p == new_plays[i] IN
              /\ (Exists(plays, p.id) /\ p.location = GAME_LOCATION) =>
                    /\ {r \in plays' : r.id = p.id} = {RowOf(p)}
                    /\ IF RowOf(p) \in plays
                       THEN NoWriteFor(writes', p.id)
                       ELSE {w \in writes' : w[2] = p.id} = {<<"update", p.id>>}
              /\ (~Exists(plays, p.id) /\ p.location # GAME_LOCATION) =>
                    /\ ~Exists(plays', p.id)
                    /\ NoWriteFor(writes', p.id)
                    /\ (\A j \in 1..Len(new_plays) :
                            <<"insert", new_plays[j].id>> \in writes'
                                => new_plays[j].game_id # p.game_id)
                           => {g \in games' : g.id = p.game_id}
                                  = {g \in games : g.id = p.game_id}]_vars

\* A pass over two records at the target location, both stored: one row
\* differed in its game and was updated, the other matched and was not
\* written.
C20_Witness ==
    /\ Reconciled
    /\ Len(new_plays) = 2
    /\ new_plays[1].location = GAME_LOCATION
    /\ new_plays[2].location = GAME_LOCATION
    /\ writes = {<<"update", new_plays[1].id>>}
    /\ RowOf(new_plays[1]) \in plays
    /\ RowOf(new_plays[2]) \in plays
    /\ new_plays[1].id # new_plays[2].id

----------------------------------------------------------------------------
(* The whole system *)

Watermark(u) == UserRow(u).last_full_scan

\* A user whose watermark is unset has no stored plays: rows of a user come
\* from that user's scans, and each scan stamps the watermark.
UnscannedUserHasNoPlays ==
    \A r \in users :
        (r.last_full_scan = NullStr /\ ~(pc = "reconciled" /\ Head(queue) = r.id))
            => \A q \in plays : q.user_id # r.id

\* C4: window-bounded deletion, removal half. After an incremental scan of
\* the sweep, every stored play of the scanned user dated inside the re-scan
\* window has an id that is present upstream, whatever the batch a fetch
\* that no failure cut short has returned.
C4_WindowPlaysDeleted ==
    [][(ReconcileStep /\ job = "cron" /\ ~full_scan /\ status_code = 200) =>
          \A r \in plays' :
              (r.user_id = Head(queue) /\ InWindow(r))
                  => r.id \in {remote[i].id : i \in 1..Len(remote)}]_vars

\* C5: a full scan is an authoritative replace. After a scan in Full mode
\* (admin-triggered, or the sweep's scan of a user without watermark) the
\* user's stored plays are exactly the target-location records of the batch.
C5_FullScanReplaces ==
    (Reconciled /\ full_scan) =>
        {r \in plays : r.user_id = Head(queue)}
            = {RowOf(new_plays[i]) :
                 i \in {j \in 1..Len(new_plays) :
                          new_plays[j].location = GAME_LOCATION}}

\* An admin full scan that discarded a stored play the batch does not name
\* and inserted another.
C5_Witness ==
    /\ Reconciled
    /\ job = "admin"
    /\ \E w \in writes : w[1] = "clear" /\ w[2] \notin BatchIds(new_plays)
    /\ \E w \in writes : w[1] = "insert"

\* C6: scan-mode transition. The sweep scans in Full mode iff the user's
\* watermark is unset; once the sweep has reconciled a user the watermark is
\* set; a set watermark is never unset, so every later decision for the user
\* is Incremental; an Incremental scan leaves the watermark as it is.
C6_ScanModeTransition ==
    /\ [][(job' = "cron" /\ pc' \in {"fetch", "fetched"}) =>
              (full_scan' <=> Watermark(Head(queue))' = NullStr)]_vars
    /\ [][(ReconcileStep /\ job = "cron") => Watermark(Head(queue))' # NullStr]_vars
    /\ [][\A r \in users : r.last_full_scan # NullStr =>
              \E q \in users' : q.id = r.id /\ q.last_full_scan # NullStr]_vars
    /\ [][(ReconcileStep /\ ~full_scan) => users' = users]_vars

\* The sweep has just reconciled, in Full mode, a user while another user of
\* the same sweep, already stamped, was scanned incrementally before.
C6_Witness ==
    /\ Reconciled
    /\ job = "cron"
    /\ full_scan
    /\ Head(queue) = 2
    /\ Watermark(2) # NullStr
    /\ IsActive(1)
    /\ Watermark(1) # NullStr

\* C10: a remote failure is contained. A non-200, non-202 response ends the
\* fetch of the current user only: the batch gathered so far is returned as
\* it is, the store and the sweep's remaining users are untouched, and the
\* sweep reconciles the batch and goes on to the next user.
C10_FailureContained ==
    /\ [][(Fetching /\ status_code' \notin {200, 202}) =>
              /\ pc' = "fetched"
              /\ new_plays' = new_plays
              /\ <<job, queue, users, plays, games>>'
                     = <<job, queue, users, plays, games>>]_vars
    /\ [][(pc = "fetched" /\ status_code = 500) =>
              /\ pc' = "reconciled"
              /\ <<job, queue, new_plays>>' = <<job, queue, new_plays>>]_vars
    /\ [][(Reconciled /\ status_code = 500 /\ Len(queue) > 1) =>
              /\ pc' = "begin"
              /\ job' = job
              /\ queue' = Tail(queue)
              /\ <<users, plays, games>>' = <<users, plays, games>>]_vars

\* The sweep is about to fetch for its second user after the first user's
\* fetch ended with a failure, with plays of an earlier scan in the store.
C10_Witness ==
    /\ pc = "begin"
    /\ job = "cron"
    /\ status_code = 500
    /\ queue = <<2>>
    /\ \E r \in plays : r.user_id = 1

\* C14: uniqueness. In every reachable state no two stored plays share a
\* play id, whatever scans and sweeps ran and also when a batch repeats a
\* play id or names a play stored under another user; and a pass inserts a
\* play id only if no row of that id was stored, or the admin full scan had
\* cleared it before.
C14_UniquePlayIds ==
    /\ [](\A r, q \in plays : r.id = q.id => r = q)
    /\ [][ReconcileStep =>
              \A id \in PlayIds :
                  <<"insert", id>> \in writes' =>
                      (\A r \in plays : r.id # id) \/ <<"clear", id>> \in writes']_vars

\* A pass over a batch that names one play twice has inserted it, next to a
\* stored play of another id.
C14_Witness ==
    /\ Reconciled
    /\ Len(new_plays) = 2
    /\ new_plays[1].id = new_plays[2].id
    /\ <<"insert", new_plays[1].id>> \in writes
    /\ Cardinality(plays) = 2


----------------------------------------------------------------------------
(* One scan: fetch and reconcile pass together *)

\* Positions of the remote history on pages the fetch did not read, when the
\* request for the current page ended it with a failure.
UnreadPositions == {i \in 1..Len(remote) : i > (page - 1) * PageSize}

\* C16: deletion detection removes only what the fetch re-examined. When a
\* remote failure cut the fetch short, the reconcile pass over the partial
\* batch keeps every stored play of the scanned user that is still upstream
\* at the target location on a page the fetch never read.
C16_UnreadPlaysKept ==
    [][(ReconcileStep /\ status_code = 500) =>
          \A r \in plays :
              (/\ r.user_id = Head(queue)
               /\ \E i \in UnreadPositions :
                     /\ remote[i].id = r.id
                     /\ remote[i].has_item
                     /\ Upper(remote[i].location) = GAME_LOCATION) =>
                  r \in plays']_vars


\* C19: case-normalised location match. Whatever the configured target
\* string, a record whose location equals it up to letter case is treated as
\* at the target location: after the pass the play is stored.
C19_CaseInsensitiveMatch ==
    [][ReconcileStep =>
          \A i \in 1..Len(new_plays) :
              Upper(new_plays[i].location) = Upper(GAME_LOCATION) =>
                  Exists(plays', new_plays[i].id)]_vars

=============================================================================
